---- MODULE Spec2Model ----
(***************************************************************************)
(* GitHub Contribution Graph Filler (src/index.js) as a state machine.     *)
(*                                                                         *)
(* One run of `node index.js ...` is modelled: ensureRepo, main's argument *)
(* parsing and dispatch, runFillMode driven by the dayRange generator,     *)
(* runPatternMode, and makeCommit as its three steps (append, stage,       *)
(* commit), each of which may throw; the rejection reaches main().catch.   *)
(*                                                                         *)
(* Abstractions.  A calendar date is a day number (day 0 is an arbitrary   *)
(* date; months are not modelled).  An instant (the time value of a JS     *)
(* Date) is a number of hours since 00:00 UTC of day 0.  The local time    *)
(* zone is a standard offset in hours plus at most one spring-forward      *)
(* transition.  A text row is a sequence of one-character strings.  The    *)
(* random time of day that formatGitDate draws is drawn and dropped: only  *)
(* the date part of a timestamp is kept.  The activity file, the index and *)
(* HEAD are the numbers of lines this run has appended, staged and         *)
(* committed; the history is the number of commits per author date.        *)
(***************************************************************************)
EXTENDS Integers, Sequences, FiniteSets, TLC

\* ------------------------------------------------------------------ bounds
\* Largest number of command-line arguments after `node index.js`.
MaxArgs == 4
\* START_DATE, END_DATE and the day of the DST transition range over 0..MaxDay;
\* PATTERN_START_DATE is day 1 or day MaxDay.
MaxDay == 2
\* MIN/MAX_COMMITS_PER_DAY and PATTERN_COMMITS range over 0..MaxPerDay.
MaxPerDay == 2
\* Widths of the generic grids given to combinePatterns: 0..MaxWidth.
MaxWidth == 2

\* ------------------------------------------------------- program constants
\* Rows of a pattern grid (Sunday..Saturday).
Rows == 7

\* ------------------------------------------------------------ text helpers
\* String.prototype.toUpperCase / toLowerCase on the strings of the model.
toUpperCase(s) ==
  CASE s = "i" -> "I"
    [] s = "h" -> "H"
    [] s = "hi" -> "HI"
    [] s = "Heart" -> "HEART"
    [] s = "smile" -> "SMILE"
    [] s = "pattern" -> "PATTERN"
    [] s = "--mode" -> "--MODE"
    [] s = "--mode=fill" -> "--MODE=FILL"
    [] s = "node" -> "NODE"
    [] s = "index.js" -> "INDEX.JS"
    [] OTHER -> s

toLowerCase(s) ==
  CASE s = "FILL" -> "fill"
    [] s = "Heart" -> "heart"
    [] s = "HI" -> "hi"
    [] OTHER -> s

\* a.startsWith("--mode")
startsWithMode(a) == a \in {"--mode", "--mode=fill"}

\* The value undefined, and JS truthiness of a string-or-undefined value.
undefined == "<undefined>"
truthy(v) == v /= undefined /\ v /= ""

\* process.argv[i] with JS 0-based indexing; out of range is undefined.
argvAt(a, i) == IF i >= 0 /\ i < Len(a) THEN a[i + 1] ELSE undefined

\* Array.prototype.indexOf: first index of x, or -1.
indexOf(a, x) ==
  IF \E i \in 1..Len(a) : a[i] = x
  THEN (CHOOSE i \in 1..Len(a) : a[i] = x /\ \A j \in 1..(i - 1) : a[j] /= x) - 1
  ELSE -1

\* Array.prototype.find with the predicate of line 342.
findModeFlag(a) ==
  IF \E i \in 1..Len(a) : startsWithMode(a[i])
  THEN a[CHOOSE i \in 1..Len(a) :
           startsWithMode(a[i]) /\ \A j \in 1..(i - 1) : ~startsWithMode(a[j])]
  ELSE undefined

\* ---------------------------------------------------------------- patterns
H == << <<"#", ".", "#">>, <<"#", ".", "#">>, <<"#", ".", "#">>,
        <<"#", "#", "#">>,
        <<"#", ".", "#">>, <<"#", ".", "#">>, <<"#", ".", "#">> >>
I == << <<"#", "#", "#">>,
        <<".", "#", ".">>, <<".", "#", ".">>, <<".", "#", ".">>,
        <<".", "#", ".">>, <<".", "#", ".">>,
        <<"#", "#", "#">> >>
HEART == << <<".", "#", ".", "#", ".">>,
            <<"#", "#", "#", "#", "#">>,
            <<"#", "#", "#", "#", "#">>,
            <<".", "#", "#", "#", ".">>,
            <<".", "#", "#", "#", ".">>,
            <<".", ".", "#", ".", ".">>,
            <<".", ".", "#", ".", ".">> >>
SMILE == << <<".", ".", "#", "#", ".", ".">>,
            <<".", "#", ".", ".", "#", ".">>,
            <<"#", ".", "#", "#", ".", "#">>,
            <<"#", ".", ".", ".", ".", "#">>,
            <<"#", ".", "#", "#", ".", "#">>,
            <<".", "#", ".", ".", "#", ".">>,
            <<".", ".", "#", "#", ".", ".">> >>

\* parts.map(p => p[row]).join(""): the concatenation of row `row` of every part.
RECURSIVE joinRow(_, _)
joinRow(parts, row) ==
  IF parts = <<>> THEN <<>>
  ELSE Head(parts)[row] \o joinRow(Tail(parts), row)

spacer == [r \in 1..Rows |-> <<".">>]

\* Mutant of interleave: no spacer is pushed.
interleave_noSpacer(letters) == letters

\* letters.forEach: a spacer before every letter but the first.
RECURSIVE interleave(_)
interleave(letters) ==
  IF Len(letters) <= 1 THEN letters
  ELSE <<Head(letters), spacer>> \o interleave(Tail(letters))

combinePatterns(letters) ==
  LET parts == interleave(letters)
  IN  [row \in 1..Rows |-> joinRow(parts, row)]

PATTERNS ==
  [n \in {"H", "I", "HEART", "SMILE", "HI"} |->
     CASE n = "H" -> H
       [] n = "I" -> I
       [] n = "HEART" -> HEART
       [] n = "SMILE" -> SMILE
       [] n = "HI" -> combinePatterns(<<H, I>>)]

\* -------------------------------------------------------------- local time
\* A time zone: standard offset `std` (hours east of UTC) and, when hasDst, one
\* spring-forward transition: when local standard time reaches dstHour:00 on
\* day dstDay the clocks go forward one hour (that local hour does not exist).
Transition(tz) == tz.dstDay * 24 + tz.dstHour - tz.std

\* Offset of local time from UTC at instant t.
Offset(tz, t) ==
  IF tz.hasDst /\ t >= Transition(tz) THEN tz.std + 1 ELSE tz.std

\* ECMAScript LocalTime(t).
LocalTime(tz, t) == t + Offset(tz, t)

\* ECMAScript UTC(t_local): a skipped local time is interpreted with the
\* offset in force before the transition.
UTC(tz, local) ==
  LET before == local - tz.std
      after  == local - (tz.std + 1)
  IN  IF ~tz.hasDst THEN before
      ELSE IF before < Transition(tz) THEN before
      ELSE IF after >= Transition(tz) THEN after
      ELSE before

\* new Date(iso + "T00:00:00"): local midnight of calendar day `day`.
parseLocalMidnight(tz, day) == UTC(tz, day * 24)

\* getFullYear/getMonth/getDate: the local calendar day of instant t.
getDate(tz, t) == LocalTime(tz, t) \div 24

\* d.setDate(d.getDate() + delta): the local day moves, the local time of day
\* is kept, and the result is converted back with UTC().
setDate(tz, t, delta) ==
  LET local == LocalTime(tz, t)
  IN  UTC(tz, ((local \div 24) + delta) * 24 + (local % 24))

\* d.toISOString().slice(0, 10): the UTC calendar day of instant t.
toISODate(t) == t \div 24

\* randomInt(min, max): the set of values it can return (min <= max).
randomInt(min, max) == min..max

\* formatGitDate(date): the strings it can return.  The date part is the local
\* year-month-day of `date`; the hour is drawn with randomInt(9, 21) (minute
\* and second likewise) and is not kept.
formatGitDate(tz, date) ==
  {[day |-> getDate(tz, date)] : hour \in randomInt(9, 21)}

\* ------------------------------------------------------------------- state
VARIABLES
  argv,         \* process.argv: <<"node", "index.js">> and the arguments
  TZ,           \* the local time zone of the process
  CONFIG,       \* the USER CONFIGURATION record
  letters,      \* the arguments of the combinePatterns call
  combined,     \* what that call returned (<<>> before it returns)
  pc,           \* where the run is
  mode,         \* main: the parsed mode
  patternName,  \* runPatternMode: the upper-cased pattern name
  current,      \* dayRange: the generator's `current` (an instant)
  end,          \* dayRange: the generator's `end` (an instant)
  started,      \* dayRange: whether the generator has yielded before
  date,         \* the Date the commits of this day / cell are made for
  iso,          \* the ISO date put in the message
  numCommits,   \* runFillMode: commits drawn for the day
  n,            \* the inner loop counter
  week,         \* runPatternMode: column
  day,          \* runPatternMode: row
  dateStr,      \* makeCommit: the timestamp argument
  message,      \* makeCommit: the message argument
  totalCommits, \* the driver's totalCommits
  totalDays,    \* runFillMode's totalDays
  activityFile, \* lines appended to the activity file by this run
  index,        \* lines of the activity file that are staged
  head,         \* lines of the activity file in the last commit
  graph,        \* commits created, per author date
  exitCode,     \* -1 while running, then the process's exit code
  stderr,       \* what was reported with console.error
  yielded,      \* history: the local days dayRange has yielded
  calls,        \* history: makeCommit invocations, per timestamp date
  attempts,     \* history: attempts of each step of makeCommit
  failed        \* history: which step threw, or "none"

vars == <<argv, TZ, CONFIG, letters, combined, pc, mode, patternName, current, end, started, date,
          iso, numCommits, n, week, day, dateStr, message, totalCommits,
          totalDays, activityFile, index, head, graph, exitCode, stderr,
          yielded, calls, attempts, failed>>

env == <<argv, TZ, CONFIG, letters, combined>>
gen == <<current, end, started>>
cell == <<week, day>>
call == <<dateStr, message>>
repo == <<activityFile, index, head, graph>>
out == <<exitCode, stderr, failed>>

\* ----------------------------------------------------------- initial states
\* Command-line words: the flag, a flag written with "=", the two mode names
\* (one in upper case), a pattern name in lower case, and the empty string.
Tokens == {"--mode", "--mode=fill", "pattern", "FILL", "i", ""}
ArgLists(k) == UNION {[1..m -> Tokens] : m \in 0..k}
PatternWords == {"h", "i", "Heart", "smile", "hi", ""}

StdOffsets == {-4, 0, 2}
DstHours == {0, 2}
NoDst(s) == [std |-> s, hasDst |-> FALSE, dstDay |-> 0, dstHour |-> 0]
TimeZones ==
  {NoDst(s) : s \in StdOffsets} \cup
  {[std |-> s, hasDst |-> TRUE, dstDay |-> d, dstHour |-> h] :
     s \in StdOffsets, d \in 0..MaxDay, h \in DstHours}

\* The configuration record with small values in place of the source's.
SmallConfig ==
  [START_DATE |-> 0, END_DATE |-> 0,
   MIN_COMMITS_PER_DAY |-> 1, MAX_COMMITS_PER_DAY |-> 1,
   PATTERN_START_DATE |-> 0, PATTERN_COMMITS |-> 1]

FillConfigs ==
  {[SmallConfig EXCEPT !.START_DATE = s, !.END_DATE = e,
                       !.MIN_COMMITS_PER_DAY = lo, !.MAX_COMMITS_PER_DAY = hi] :
     s \in 0..MaxDay, e \in 0..MaxDay,
     lo \in 0..MaxPerDay, hi \in 0..MaxPerDay} 

PatternConfigs ==
  {[SmallConfig EXCEPT !.PATTERN_START_DATE = s, !.PATTERN_COMMITS = c] :
     s \in {1, MaxDay}, c \in 0..MaxPerDay}

NoCounts == [d \in {} |-> 0]

\* The variables of main and of what it calls, before main runs.
InitLocals ==
  /\ mode = undefined
  /\ patternName = undefined
  /\ current = 0 /\ end = 0 /\ started = FALSE
  /\ date = 0 /\ iso = 0
  /\ numCommits = 0 /\ n = 0 /\ week = 0 /\ day = 0
  /\ dateStr = [day |-> 0]
  /\ message = [pattern |-> undefined, n |-> 0, iso |-> 0]
  /\ totalCommits = 0 /\ totalDays = 0
  /\ activityFile = 0 /\ index = 0 /\ head = 0
  /\ graph = NoCounts
  /\ exitCode = -1
  /\ stderr = <<>>
  /\ yielded = <<>>
  /\ calls = NoCounts
  /\ attempts = [append |-> 0, stage |-> 0, commit |-> 0]
  /\ failed = "none"

\* The state when main is called, but for the command line, the time zone and
\* the configuration; line 165 has built PATTERNS.HI.
InitRun ==
  /\ letters = <<H, I>>
  /\ combined = PATTERNS["HI"]
  /\ pc = "ensureRepo"
  /\ InitLocals

\* Every command line of at most MaxArgs words, in UTC with the small
\* configuration.
InitCli ==
  /\ argv \in {<<"node", "index.js">> \o a : a \in ArgLists(MaxArgs)}
  /\ TZ = NoDst(0)
  /\ CONFIG = SmallConfig

\* `node index.js` in every time zone and every fill configuration with
\* MIN_COMMITS_PER_DAY <= MAX_COMMITS_PER_DAY (both orders of the two dates).
InitFill ==
  /\ argv = <<"node", "index.js">>
  /\ TZ \in TimeZones
  /\ CONFIG \in {c \in FillConfigs :
                   c.MIN_COMMITS_PER_DAY <= c.MAX_COMMITS_PER_DAY}

\* Pattern mode of every defined pattern (process.argv[3] names it) in every
\* time zone and every pattern configuration.
InitPattern ==
  /\ argv \in {<<"node", "index.js", "", w, "--mode", "pattern">> :
                 w \in PatternWords}
  /\ TZ \in TimeZones
  /\ CONFIG \in PatternConfigs

Init == InitRun /\ (InitCli \/ InitFill \/ InitPattern)

\* ------------------------------------------------------------------ actions
\* f with the count of d raised by one.
Bump(f, d) ==
  [x \in DOMAIN f \cup {d} |->
     IF x = d THEN (IF d \in DOMAIN f THEN f[d] ELSE 0) + 1 ELSE f[x]]

\* Mutant of Fatal: the failed step is noted and run again.
Fatal_retry(step) ==
  /\ stderr' = Append(stderr, "Retrying")
  /\ failed' = step
  /\ UNCHANGED <<exitCode, pc>>

\* main().catch: a rejection is logged and the process exits with code 1.
Fatal(step) ==
  /\ stderr' = Append(stderr, "Fatal error")
  /\ exitCode' = 1
  /\ failed' = step
  /\ pc' = "done"

\* Mutant of ExitWithError: the error is printed and the process exits with
\* code 0.
ExitWithError_zero(what) ==
  /\ stderr' = Append(stderr, what)
  /\ exitCode' = 0
  /\ pc' = "done"
  /\ UNCHANGED failed

\* process.exit(1) after console.error(what).
ExitWithError(what) ==
  /\ stderr' = Append(stderr, what)
  /\ exitCode' = 1
  /\ pc' = "done"
  /\ UNCHANGED failed

\* main returns and the process ends with code 0.
ExitNormally ==
  /\ exitCode' = 0
  /\ pc' = "done"
  /\ UNCHANGED <<stderr, failed>>

\* ensureRepo: checkIsRepo and init succeed, or one of them rejects.
EnsureRepo ==
  /\ pc = "ensureRepo"
  /\ \/ pc' = "main" /\ UNCHANGED out
     \/ Fatal("ensureRepo")
  /\ UNCHANGED <<env, mode, patternName, gen, date, iso, numCommits, n, cell,
                 call, totalCommits, totalDays, repo, yielded, calls, attempts>>

\* main, lines 342-344: the mode the command line selects.
parseMode(a) ==
  LET modeFlag == findModeFlag(a)
      modeArg  == argvAt(a, indexOf(a, "--mode") + 1)
  IN  IF truthy(modeFlag)
      THEN toLowerCase(IF truthy(modeArg) THEN modeArg ELSE "fill")
      ELSE "fill"

\* main, lines 346-356: the switch.
Main ==
  /\ pc = "main"
  /\ mode' = parseMode(argv)
  /\ CASE mode' = "fill" -> pc' = "runFillMode" /\ UNCHANGED out
       [] mode' = "pattern" -> pc' = "runPatternMode" /\ UNCHANGED out
       [] OTHER -> ExitWithError("Unknown mode")
  /\ UNCHANGED <<env, patternName, gen, date, iso, numCommits, n, cell, call,
                 totalCommits, totalDays, repo, yielded, calls, attempts>>

\* runFillMode up to the for-of: the counters and the generator's two Dates.
RunFillMode ==
  /\ pc = "runFillMode"
  /\ totalCommits' = 0
  /\ totalDays' = 0
  /\ current' = parseLocalMidnight(TZ, CONFIG.START_DATE)
  /\ end' = parseLocalMidnight(TZ, CONFIG.END_DATE)
  /\ started' = FALSE
  /\ pc' = "dayRange"
  /\ UNCHANGED <<env, mode, patternName, date, iso, numCommits, n, cell, call,
                 repo, out, yielded, calls, attempts>>

\* The instant the generator holds when it tests `current <= end`: on every
\* resumption but the first, current.setDate(current.getDate() + 1) ran first.
advance(tz, cur, resumed) == IF resumed THEN setDate(tz, cur, 1) ELSE cur

\* Mutant of inRange: the comparison the other way round.
inRange_reversed(cur, e) == cur >= e

\* Line 204: the generator's loop condition, on the two time values.
inRange(cur, e) == cur <= e

\* One next() of dayRange and, when it yields, the draw of numCommits; when
\* it is done runFillMode and main return.
DayRangeNext ==
  /\ pc = "dayRange"
  /\ current' = advance(TZ, current, started)
  /\ started' = TRUE
  /\ IF inRange(current', end)
     THEN /\ iso' = toISODate(current')
          /\ date' = current'
          /\ yielded' = Append(yielded, getDate(TZ, current'))
          /\ numCommits' \in randomInt(CONFIG.MIN_COMMITS_PER_DAY,
                                       CONFIG.MAX_COMMITS_PER_DAY)
          /\ n' = 1
          /\ pc' = "fillLoop"
          /\ UNCHANGED out
     ELSE /\ ExitNormally
          /\ UNCHANGED <<iso, date, yielded, numCommits, n>>
  /\ UNCHANGED <<env, mode, patternName, end, cell, call, totalCommits,
                 totalDays, repo, calls, attempts>>

\* runFillMode's inner loop: the next makeCommit of the day, or the day ends.
FillLoop ==
  /\ pc = "fillLoop"
  /\ IF n <= numCommits
     THEN /\ dateStr' \in formatGitDate(TZ, date)
          /\ message' = [pattern |-> undefined, n |-> n, iso |-> iso]
          /\ calls' = Bump(calls, dateStr'.day)
          /\ pc' = "append"
          /\ UNCHANGED totalDays
     ELSE /\ totalDays' = totalDays + 1
          /\ pc' = "dayRange"
          /\ UNCHANGED <<call, calls>>
  /\ UNCHANGED <<env, mode, patternName, gen, date, iso, numCommits, n, cell,
                 totalCommits, repo, out, yielded, attempts>>

\* makeCommit, line 235: fs.appendFileSync, which may throw.
AppendLine ==
  /\ pc = "append"
  /\ attempts' = [attempts EXCEPT !.append = @ + 1]
  /\ \/ activityFile' = activityFile + 1 /\ pc' = "stage" /\ UNCHANGED out
     \/ Fatal("append") /\ UNCHANGED activityFile
  /\ UNCHANGED <<env, mode, patternName, gen, date, iso, numCommits, n, cell,
                 call, totalCommits, totalDays, index, head, graph, yielded,
                 calls>>

\* makeCommit, line 237: git add, which may reject.
Stage ==
  /\ pc = "stage"
  /\ attempts' = [attempts EXCEPT !.stage = @ + 1]
  /\ \/ index' = activityFile /\ pc' = "commit" /\ UNCHANGED out
     \/ Fatal("stage") /\ UNCHANGED index
  /\ UNCHANGED <<env, mode, patternName, gen, date, iso, numCommits, n, cell,
                 call, totalCommits, totalDays, activityFile, head, graph,
                 yielded, calls>>

\* Where makeCommit's caller continues.
returnTo(m) == IF m = "fill" THEN "fillLoop" ELSE "cellLoop"

\* Mutant of Commit: the commit is started and not awaited; the caller goes on.
Commit_notAwaited ==
  /\ pc = "commit"
  /\ attempts' = [attempts EXCEPT !.commit = @ + 1]
  /\ totalCommits' = totalCommits + 1
  /\ n' = n + 1
  /\ pc' = returnTo(mode)
  /\ UNCHANGED <<env, mode, patternName, gen, date, iso, numCommits, cell,
                 call, totalDays, repo, out, yielded, calls>>

\* makeCommit, lines 241-245: git commit with both dates set to dateStr, which
\* may reject; on success the caller counts the commit and its loop steps.
Commit ==
  /\ pc = "commit"
  /\ attempts' = [attempts EXCEPT !.commit = @ + 1]
  /\ \/ /\ head' = index
        /\ graph' = Bump(graph, dateStr.day)
        /\ totalCommits' = totalCommits + 1
        /\ n' = n + 1
        /\ pc' = returnTo(mode)
        /\ UNCHANGED out
     \/ Fatal("commit") /\ UNCHANGED <<head, graph, totalCommits, n>>
  /\ UNCHANGED <<env, mode, patternName, gen, date, iso, numCommits, cell,
                 call, totalDays, activityFile, index, yielded, calls>>

\* runPatternMode, line 292: the pattern name.
selectPattern(a) ==
  LET word == argvAt(a, 3)
  IN  toUpperCase(IF truthy(word) THEN word ELSE "HI")

\* runPatternMode, lines 292-306: the lookup, and the exit when it fails.
RunPatternMode ==
  /\ pc = "runPatternMode"
  /\ patternName' = selectPattern(argv)
  /\ IF patternName' \notin DOMAIN PATTERNS
     THEN /\ ExitWithError("Unknown pattern")
          /\ UNCHANGED <<cell, totalCommits>>
     ELSE /\ week' = 0
          /\ day' = 0
          /\ totalCommits' = 0
          /\ pc' = "patternLoop"
          /\ UNCHANGED out
  /\ UNCHANGED <<env, mode, gen, date, iso, numCommits, n, call, totalDays,
                 repo, yielded, calls, attempts>>

\* Mutant of targetDate: rows and columns exchanged.
targetDate_swapped(tz, start, w, d) ==
  setDate(tz, parseLocalMidnight(tz, start), d * 7 + w)

\* Lines 314-315: the Date of the cell at (w, d).
targetDate(tz, start, w, d) ==
  setDate(tz, parseLocalMidnight(tz, start), w * 7 + d)

\* One step of the two for loops of runPatternMode: past the last column the
\* function returns; past the last row the next column starts; a blank cell is
\* skipped; a lit cell gets its target date.
PatternLoop ==
  /\ pc = "patternLoop"
  /\ LET pattern  == PATTERNS[patternName]
         numWeeks == Len(pattern[1])
     IN  IF week >= numWeeks
         THEN ExitNormally /\ UNCHANGED <<cell, date, n>>
         ELSE /\ UNCHANGED out
              /\ IF day >= Rows
                 THEN /\ week' = week + 1
                      /\ day' = 0
                      /\ pc' = "patternLoop"
                      /\ UNCHANGED <<date, n>>
                 ELSE IF pattern[day + 1][week + 1] /= "#"
                 THEN /\ day' = day + 1
                      /\ pc' = "patternLoop"
                      /\ UNCHANGED <<week, date, n>>
                 ELSE /\ date' = targetDate(TZ, CONFIG.PATTERN_START_DATE,
                                            week, day)
                      /\ n' = 0
                      /\ pc' = "cellLoop"
                      /\ UNCHANGED cell
  /\ UNCHANGED <<env, mode, patternName, gen, iso, numCommits, call,
                 totalCommits, totalDays, repo, yielded, calls, attempts>>

\* Lines 317-323: the next makeCommit of the cell, or the cell is finished.
CellLoop ==
  /\ pc = "cellLoop"
  /\ IF n < CONFIG.PATTERN_COMMITS
     THEN /\ dateStr' \in formatGitDate(TZ, date)
          /\ iso' = toISODate(date)
          /\ message' = [pattern |-> patternName, n |-> n + 1, iso |-> iso']
          /\ calls' = Bump(calls, dateStr'.day)
          /\ pc' = "append"
          /\ UNCHANGED day
     ELSE /\ day' = day + 1
          /\ pc' = "patternLoop"
          /\ UNCHANGED <<iso, call, calls>>
  /\ UNCHANGED <<env, mode, patternName, gen, date, numCommits, n, week,
                 totalCommits, totalDays, repo, out, yielded, attempts>>

Next ==
  \/ EnsureRepo
  \/ Main
  \/ RunFillMode
  \/ DayRangeNext
  \/ FillLoop
  \/ AppendLine
  \/ Stage
  \/ Commit
  \/ RunPatternMode
  \/ PatternLoop
  \/ CellLoop

Spec == Init /\ [][Next]_vars

\* ------------------------------------------------- combinePatterns on its own
\* 7-row grids of width w: blank, fully lit, and lit in exactly one cell.
blankGrid(w) == [r \in 1..Rows |-> [c \in 1..w |-> "."]]
fullGrid(w) == [r \in 1..Rows |-> [c \in 1..w |-> "#"]]
unitGrid(w, r0, c0) ==
  [r \in 1..Rows |-> [c \in 1..w |-> IF r = r0 /\ c = c0 THEN "#" ELSE "."]]

Grids ==
  {H, I, HEART, SMILE} \cup
  {blankGrid(w) : w \in 0..MaxWidth} \cup
  {fullGrid(w) : w \in 1..MaxWidth} \cup
  {unitGrid(w, r0, c0) : w \in 1..MaxWidth, r0 \in 1..Rows, c0 \in 1..MaxWidth}

\* A call combinePatterns(A, B) that has not returned yet.
InitCombine ==
  /\ letters \in Grids \X Grids
  /\ combined = <<>>
  /\ pc = "combinePatterns"
  /\ argv = <<"node", "index.js">>
  /\ TZ = NoDst(0)
  /\ CONFIG = SmallConfig
  /\ InitLocals

\* The call returns.
Combine ==
  /\ pc = "combinePatterns"
  /\ combined' = combinePatterns(letters)
  /\ pc' = "returned"
  /\ UNCHANGED <<argv, TZ, CONFIG, letters, mode, patternName, gen, date, iso,
                 numCommits, n, cell, call, totalCommits, totalDays, repo,
                 out, yielded, calls, attempts>>

NextCombine == Combine

SpecCombine == InitCombine /\ [][NextCombine]_vars

\* ------------------------------------------------------------ the claims
\* Sum of the counts of f.
RECURSIVE SumOver(_, _)
SumOver(f, S) ==
  IF S = {} THEN 0
  ELSE LET d == CHOOSE x \in S : TRUE
       IN  f[d] + SumOver(f, S \ {d})
Total(f) == SumOver(f, DOMAIN f)

\* The count of d in f, 0 when f has none.
CountAt(f, d) == IF d \in DOMAIN f THEN f[d] ELSE 0

InMakeCommit == pc \in {"append", "stage", "commit"}
Done == pc = "done"
Succeeded == pc = "done" /\ exitCode = 0

\* The lit cells of grid p as <<week, weekday>> pairs, both counted from 0.
LitCells(p) ==
  {wd \in (0..(Len(p[1]) - 1)) \X (0..(Rows - 1)) : p[wd[2] + 1][wd[1] + 1] = "#"}
LitOf == [nm \in DOMAIN PATTERNS |-> LitCells(PATTERNS[nm])]

\* C1: in pattern mode every makeCommit invocation is made for a lit cell, is
\* one of the PATTERN_COMMITS invocations of that cell, and carries the date
\* PATTERN_START_DATE + 7 * week + weekday; a run that completes has invoked
\* makeCommit exactly PATTERN_COMMITS times for the date of every lit cell and
\* L * PATTERN_COMMITS times in all, so never for a blank cell.
C1_PatternCommits ==
  (mode = "pattern" /\ patternName \in DOMAIN PATTERNS) =>
    LET c     == CONFIG.PATTERN_COMMITS
        start == CONFIG.PATTERN_START_DATE
    IN  /\ InMakeCommit =>
             /\ week < Len(PATTERNS[patternName][1]) /\ day < Rows
             /\ PATTERNS[patternName][day + 1][week + 1] = "#"
             /\ dateStr.day = start + 7 * week + day
             /\ n < c
             /\ calls[dateStr.day] = n + 1
        /\ Succeeded =>
             /\ Total(calls) = Cardinality(LitOf[patternName]) * c
             /\ \A wd \in LitOf[patternName] :
                  CountAt(calls, start + 7 * wd[1] + wd[2]) = c

\* A completed drawing of "HI" (26 lit cells), more than one commit per cell,
\* in a zone whose clocks go forward at midnight inside the drawing.
C1_Witness ==
  /\ Succeeded
  /\ mode = "pattern"
  /\ patternName = "HI"
  /\ CONFIG.PATTERN_COMMITS = 2
  /\ TZ.hasDst /\ TZ.dstHour = 0 /\ TZ.dstDay > CONFIG.PATTERN_START_DATE
  /\ Total(calls) = 52

\* C2 (as claimed): in fill mode with MIN = MAX = k a completed run has invoked
\* makeCommit exactly k times for every day of START_DATE..END_DATE, so the
\* activity file has k lines per day; with k = 0 nothing is invoked and the
\* file is unchanged.
C2_Claim ==
  (/\ mode = "fill"
   /\ CONFIG.MIN_COMMITS_PER_DAY = CONFIG.MAX_COMMITS_PER_DAY
   /\ Succeeded) =>
    LET k == CONFIG.MIN_COMMITS_PER_DAY
    IN  /\ \A d \in CONFIG.START_DATE..CONFIG.END_DATE : CountAt(calls, d) = k
        /\ activityFile = k * Cardinality(CONFIG.START_DATE..CONFIG.END_DATE)
        /\ k = 0 => (Total(calls) = 0 /\ activityFile = 0)

\* C3 (as claimed): for START_DATE <= END_DATE a fully consumed dayRange has
\* yielded exactly END - START + 1 dates: START, START + 1, ..., END.
C3_Claim ==
  (/\ mode = "fill"
   /\ CONFIG.START_DATE <= CONFIG.END_DATE
   /\ Succeeded) =>
    yielded = [i \in 1..(CONFIG.END_DATE - CONFIG.START_DATE + 1) |->
                 CONFIG.START_DATE + i - 1]

\* C4 (as claimed): `node index.js --mode pattern` draws "HI", and
\* `node index.js --mode pattern <name>` draws the pattern whose name is <name>
\* in upper case, when the repository and git do not fail.
C4_Claim ==
  (/\ Len(argv) \in {4, 5}
   /\ argv[3] = "--mode"
   /\ argv[4] = "pattern"
   /\ Len(argv) = 5 => toUpperCase(argv[5]) \in DOMAIN PATTERNS
   /\ Done
   /\ failed = "none") =>
    /\ patternName = (IF Len(argv) = 5 THEN toUpperCase(argv[5]) ELSE "HI")
    /\ exitCode = 0
    /\ Total(calls) = Cardinality(LitOf[patternName]) * CONFIG.PATTERN_COMMITS

\* The invocation names no mode main knows, or in pattern mode no defined
\* pattern.
BadInvocation ==
  \/ parseMode(argv) \notin {"fill", "pattern"}
  \/ parseMode(argv) = "pattern" /\ selectPattern(argv) \notin DOMAIN PATTERNS

\* C5: an invocation with an unknown mode, or in pattern mode an unknown
\* pattern name, never invokes makeCommit and never touches the activity file
\* or the history, and when it has ended it has reported an error and its exit
\* code is not 0.
C5_BadInvocation ==
  BadInvocation =>
    /\ ~InMakeCommit
    /\ Total(calls) = 0
    /\ activityFile = 0 /\ index = 0 /\ head = 0
    /\ Total(graph) = 0
    /\ pc \in {"ensureRepo", "main", "runPatternMode", "done"}
    /\ Done => (exitCode /= 0 /\ stderr /= <<>>)

\* Both kinds of bad invocation have ended, rejected by the program itself.
C5_Witness ==
  /\ Done
  /\ parseMode(argv) = "pattern"
  /\ selectPattern(argv) \notin DOMAIN PATTERNS
  /\ stderr = <<"Unknown pattern">>
  /\ exitCode = 1

\* C6 (as claimed): with START_DATE after END_DATE a fill run makes no commit,
\* reports an error and ends with a non-zero exit code.
C6_Claim ==
  (/\ parseMode(argv) = "fill"
   /\ CONFIG.START_DATE > CONFIG.END_DATE
   /\ Done) =>
    /\ Total(calls) = 0
    /\ stderr /= <<>>
    /\ exitCode /= 0

\* C6 (amended): with START_DATE after END_DATE dayRange yields nothing, so a
\* fill run makes no commit and leaves the activity file unchanged; the range
\* is not reported: unless ensureRepo rejects, nothing is written to standard
\* error and the exit code is 0.
C6_EmptyRange ==
  (parseMode(argv) = "fill" /\ CONFIG.START_DATE > CONFIG.END_DATE) =>
    /\ yielded = <<>>
    /\ ~InMakeCommit
    /\ Total(calls) = 0
    /\ activityFile = 0
    /\ Total(graph) = 0
    /\ Done => IF failed = "none"
               THEN exitCode = 0 /\ stderr = <<>>
               ELSE failed = "ensureRepo" /\ exitCode = 1

\* A fill run over an inverted range that ended normally.
C6_Witness ==
  /\ mode = "fill"
  /\ CONFIG.START_DATE > CONFIG.END_DATE
  /\ started
  /\ Succeeded

\* C7: combinePatterns(A, B) of two 7-row grids of widths w1 and w2 is a grid
\* of 7 rows of width w1 + 1 + w2 each: A in columns 1..w1, "." in column
\* w1 + 1, B in the w2 columns after it.
C7_Combine ==
  pc = "returned" =>
    LET A  == letters[1]
        B  == letters[2]
        w1 == Len(A[1])
        w2 == Len(B[1])
    IN  /\ Len(combined) = 7
        /\ \A r \in 1..7 :
             /\ Len(combined[r]) = w1 + 1 + w2
             /\ \A c \in 1..w1 : combined[r][c] = A[r][c]
             /\ combined[r][w1 + 1] = "."
             /\ \A c \in 1..w2 : combined[r][w1 + 1 + c] = B[r][c]

\* combinePatterns has returned for two grids of different widths, both with
\* a lit cell in their last column.
C7_Witness ==
  /\ pc = "returned"
  /\ Len(letters[1][1]) = 2
  /\ Len(letters[2][1]) = 1
  /\ letters[1][3][2] = "#"
  /\ letters[2][5][1] = "#"
  /\ combined[3] = <<".", "#", ".", ".">>
  /\ combined[5] = <<".", ".", ".", "#">>

\* C8: the steps of makeCommit run in the order append, stage, commit, one
\* makeCommit at a time: when a step is about to run, every step of every
\* earlier makeCommit has run and everything appended before is committed;
\* at the commit step exactly one line of the file is in no commit, and it is
\* staged; a run that completes has appended as many lines as it has created
\* commits.
C8_Sequential ==
  LET k == Total(calls)
  IN  /\ pc = "append" =>
           /\ attempts = [append |-> k - 1, stage |-> k - 1, commit |-> k - 1]
           /\ activityFile = head
      /\ pc = "stage" =>
           /\ attempts = [append |-> k, stage |-> k - 1, commit |-> k - 1]
           /\ activityFile = head + 1
      /\ pc = "commit" =>
           /\ attempts = [append |-> k, stage |-> k, commit |-> k - 1]
           /\ activityFile = head + 1
           /\ index = activityFile
      /\ (~InMakeCommit /\ failed = "none") =>
           /\ attempts = [append |-> k, stage |-> k, commit |-> k]
           /\ activityFile = head
      /\ head <= index /\ index <= activityFile /\ activityFile <= head + 1
      /\ Total(graph) = head
      /\ Succeeded => (activityFile = Total(graph) /\ activityFile = k)

\* A run that made several commits is at the commit step of the next.
C8_Witness ==
  /\ pc = "commit"
  /\ head = 2
  /\ activityFile = 3
  /\ index = 3

\* C9: when a step of makeCommit fails the run is over at once with exit code
\* 1: the failed step was attempted once, the steps after it in that
\* makeCommit were not attempted, nothing can happen afterwards; and no step
\* is ever attempted more often than makeCommit was invoked.
C9_NoRetry ==
  LET k == Total(calls)
  IN  /\ attempts.append <= k /\ attempts.stage <= k /\ attempts.commit <= k
      /\ failed /= "none" => (Done /\ exitCode = 1 /\ stderr /= <<>>)
      /\ Done => ~ENABLED Next
      /\ failed = "append" =>
           /\ attempts = [append |-> k, stage |-> k - 1, commit |-> k - 1]
           /\ activityFile = k - 1
      /\ failed = "stage" =>
           /\ attempts = [append |-> k, stage |-> k, commit |-> k - 1]
           /\ index = k - 1
      /\ failed = "commit" =>
           /\ attempts = [append |-> k, stage |-> k, commit |-> k]
           /\ Total(graph) = k - 1

\* The stage step of the second makeCommit failed.
C9_Witness ==
  /\ failed = "stage"
  /\ Total(calls) = 2
  /\ Total(graph) = 1
  /\ Done

\* C10 (as claimed): the ISO date in the message of every makeCommit equals
\* the date part of its timestamp.
C10_Claim ==
  InMakeCommit => message.iso = dateStr.day

====
